---------------------------- MODULE Spec2Model ----------------------------
(***************************************************************************)
(* A model of the story extraction passes of addon-svelte-csf:             *)
(*   - walkOnFragment      (src/src/utils/parser/walkers/fragment.ts)      *)
(*   - getStoryId          (the same file, as a function of its arguments) *)
(*   - getStoryChildrenRawSource            (src/unnamed/part_000)         *)
(*   - parseForIndexer     (src/src/indexer/parser.ts)                     *)
(* A JavaScript string is a sequence of one-character strings.  A value    *)
(* that may be undefined, or a call that may throw, is a record tagged by  *)
(* its field t.                                                            *)
(***************************************************************************)
EXTENDS Integers, Sequences, FiniteSets, TLC

(***************************************************************************)
(* Bounds of the model.                                                    *)
(***************************************************************************)
\* longest name given to getStoryId when it is checked as a function
MaxNameLen == 3
\* nodes of one markup fragment walked by walkOnFragment
MaxNodes == 4
\* the same, for the fragments whose markers differ in source and child nodes
MaxSourceNodes == 2
\* nodes of the root fragment of a document read by parseForIndexer
MaxIndexNodes == 3
\* statements of the body of a compiled program read by extractCompiledASTNodes
MaxStatements == 3
\* properties of a meta object literal
MaxProperties == 3
\* calls the call stack holds before the engine throws RangeError
MaxCallStack == 6

(***************************************************************************)
(* Characters and strings.                                                 *)
(***************************************************************************)
LowerCase == <<"a","b","c","d","e","f","g","h","i","j","k","l","m",
               "n","o","p","q","r","s","t","u","v","w","x","y","z">>
UpperCase == <<"A","B","C","D","E","F","G","H","I","J","K","L","M",
               "N","O","P","Q","R","S","T","U","V","W","X","Y","Z">>
Digits == <<"0","1","2","3","4","5","6","7","8","9">>
HexDigits == <<"0","1","2","3","4","5","6","7","8","9","a","b","c","d","e","f">>

Range(f) == {f[i] : i \in DOMAIN f}

\* \w of a JavaScript regular expression without the u flag: [A-Za-z0-9_]
IsWordChar(c) == c \in Range(LowerCase) \cup Range(UpperCase) \cup Range(Digits) \cup {"_"}

\* the characters "." does not match
IsLineTerminator(c) == c \in {"\n", "\r"}

\* String.prototype.toUpperCase on one character
toUpperCase(c) ==
    IF \E i \in DOMAIN LowerCase : LowerCase[i] = c
    THEN UpperCase[CHOOSE i \in DOMAIN LowerCase : LowerCase[i] = c]
    ELSE c

\* String.prototype.charCodeAt(0) of the characters the model uses
charCodeAt(c) ==
    IF \E i \in DOMAIN LowerCase : LowerCase[i] = c
    THEN 96 + (CHOOSE i \in DOMAIN LowerCase : LowerCase[i] = c)
    ELSE IF \E i \in DOMAIN UpperCase : UpperCase[i] = c
    THEN 64 + (CHOOSE i \in DOMAIN UpperCase : UpperCase[i] = c)
    ELSE IF \E i \in DOMAIN Digits : Digits[i] = c
    THEN 47 + (CHOOSE i \in DOMAIN Digits : Digits[i] = c)
    ELSE CASE c = " " -> 32
           [] c = "!" -> 33
           [] c = "?" -> 63
           [] c = "_" -> 95
           [] c = "\n" -> 10
           [] c = "\r" -> 13
           [] OTHER -> 0

\* the strings over alphabet A of length at most n
RECURSIVE StringsUpTo(_, _)
StringsUpTo(A, n) ==
    IF n = 0 THEN {<<>>}
    ELSE LET shorter == StringsUpTo(A, n - 1)
         IN shorter \cup {Append(s, c) : s \in shorter, c \in A}

(***************************************************************************)
(* Values of the walkers.                                                  *)
(***************************************************************************)
Undefined == [t |-> "undefined"]
Str(s) == [t |-> "string", s |-> s]
Bool(b) == [t |-> "boolean", b |-> b]
Throw(msg) == [t |-> "throw", msg |-> msg]
IsThrow(v) == v.t = "throw"

\* if (!x) for a value that is undefined or a string
Falsy(v) == v.t = "undefined" \/ (v.t = "string" /\ v.s = <<>>)

(***************************************************************************)
(* Attribute nodes.  The value of an attribute is true (a bare attribute)  *)
(* or an array of Text and ExpressionTag parts.                            *)
(***************************************************************************)
TextPart(s) == [type |-> "Text", data |-> s, expr |-> "none", b |-> FALSE, name |-> <<>>]
BoolExprPart(b) ==
    [type |-> "ExpressionTag", data |-> <<>>, expr |-> "LiteralBoolean", b |-> b, name |-> <<>>]
\* {name}
IdentifierPart(name) ==
    [type |-> "ExpressionTag", data |-> <<>>, expr |-> "Identifier", b |-> FALSE, name |-> name]
\* {f()}
CallExprPart ==
    [type |-> "ExpressionTag", data |-> <<>>, expr |-> "CallExpression", b |-> FALSE, name |-> <<>>]
DynExprPart == IdentifierPart(<<"v">>)
\* {['a', 'b']}: an array of string literals, its elements in data
ArrayExprPart(elements) ==
    [type |-> "ExpressionTag", data |-> elements, expr |-> "ArrayOfStringLiterals",
     b |-> FALSE, name |-> <<>>]

Bare == [bare |-> TRUE, parts |-> <<>>]
Parts(ps) == [bare |-> FALSE, parts |-> ps]
Attr(name, value) == [name |-> name, value |-> value]

lookupAttribute(name, attributes) ==
    LET hits == {i \in DOMAIN attributes : attributes[i].name = name}
    IN IF hits = {} THEN [found |-> FALSE, value |-> Bare]
       ELSE [found |-> TRUE,
             value |-> attributes[CHOOSE i \in hits : \A j \in hits : i <= j].value]

getBooleanFromAttribute(name, attributes) ==
    LET attribute == lookupAttribute(name, attributes)
        value == attribute.value
    IN IF ~attribute.found THEN Undefined
       ELSE IF value.bare THEN Bool(TRUE)
       ELSE IF /\ Len(value.parts) = 1
               /\ value.parts[1].type = "ExpressionTag"
               /\ value.parts[1].expr = "LiteralBoolean"
       THEN Bool(value.parts[1].b)
       ELSE Throw("is not a static boolean")

getStringFromAttribute(name, attributes) ==
    LET attribute == lookupAttribute(name, attributes)
        value == attribute.value
    IN IF ~attribute.found THEN Undefined
       ELSE IF value.bare THEN Throw("is not a string")
       ELSE IF Len(value.parts) = 1 /\ value.parts[1].type = "Text"
       THEN Str(value.parts[1].data)
       ELSE Throw("is not a static string")

\* a getSourceAttribute without the catch that falls back to the string
getSourceAttribute_NoFallback(attributes) == getBooleanFromAttribute("source", attributes)

getSourceAttribute(attributes) ==
    LET value == getBooleanFromAttribute("source", attributes)
    IN IF IsThrow(value) THEN getStringFromAttribute("source", attributes) ELSE value

getStoryName(attributes, names) ==
    LET name == getStringFromAttribute("name", attributes)
    IN IF IsThrow(name) THEN name
       ELSE IF Falsy(name) THEN Throw("Missing prop 'name' in <Story> component.")
       ELSE IF name.s \in names THEN Throw("conflicts with another story.")
       ELSE name

(***************************************************************************)
(* hashCode: a 32-bit fold, kept as two 16-bit halves.                     *)
(***************************************************************************)
\* ((prev << 5) - prev + code) | 0, as the bit pattern of the result
HashStep(prev, code) ==
    LET lo == prev.lo * 31 + code
        hi == prev.hi * 31 + (lo \div 65536)
    IN [hi |-> hi % 65536, lo |-> lo % 65536]

RECURSIVE HashFold(_, _, _)
HashFold(str, i, prev) ==
    IF i > Len(str) THEN prev
    ELSE HashFold(str, i + 1, HashStep(prev, charCodeAt(str[i])))

\* Math.abs of the signed 32-bit integer with bit pattern h
Abs32(h) ==
    IF h.hi < 32768 THEN h
    ELSE [hi |-> (65535 - h.hi + (IF h.lo = 0 THEN 1 ELSE 0)) % 65536,
          lo |-> (65536 - h.lo) % 65536]

\* Number.prototype.toString(16) of n >= 0
RECURSIVE ToHex(_)
ToHex(n) ==
    IF n < 16 THEN <<HexDigits[n + 1]>>
    ELSE Append(ToHex(n \div 16), HexDigits[(n % 16) + 1])

\* n in hexadecimal, filled with zeros on the left to four digits
Hex4(n) ==
    LET h == ToHex(n)
    IN [i \in 1..(4 - Len(h)) |-> "0"] \o h

hashCode(str) ==
    LET h == Abs32(HashFold(str, 1, [hi |-> 0, lo |-> 0]))
    IN IF h.hi = 0 THEN ToHex(h.lo) ELSE ToHex(h.hi) \o Hex4(h.lo)

(***************************************************************************)
(* name.replace(/\W+(.|$)/g, (_, chr) => chr.toUpperCase())                *)
(***************************************************************************)
\* the last index of the longest run of non-word characters starting at i
RECURSIVE RunEnd(_, _)
RunEnd(s, i) ==
    IF i < Len(s) /\ ~IsWordChar(s[i + 1]) THEN RunEnd(s, i + 1) ELSE i

\* the ends k of \W+ started at i after which (.|$) matches
MatchEnds(s, i) ==
    {k \in i..RunEnd(s, i) : k = Len(s) \/ ~IsLineTerminator(s[k + 1])}

RECURSIVE ReplaceFrom(_, _)
ReplaceFrom(s, i) ==
    IF i > Len(s) THEN <<>>
    ELSE IF IsWordChar(s[i]) \/ MatchEnds(s, i) = {}
    THEN <<s[i]>> \o ReplaceFrom(s, i + 1)
    ELSE LET k == CHOOSE e \in MatchEnds(s, i) : \A o \in MatchEnds(s, i) : o <= e
         IN IF k = Len(s) THEN <<>>
            ELSE <<toUpperCase(s[k + 1])>> \o ReplaceFrom(s, k + 2)

\* a getStoryId that drops the non-word characters and upper-cases nothing
generated_NoUpperCase(name) == SelectSeq(name, IsWordChar)

generatedId(name) == ReplaceFrom(name, 1)

getStoryId(attributes, name, ids) ==
    LET id == getStringFromAttribute("id", attributes)
        generated == generatedId(name)
    IN IF IsThrow(id) THEN [id |-> id, warned |-> FALSE]
       ELSE IF ~Falsy(id) THEN [id |-> id, warned |-> FALSE]
       ELSE IF generated \in ids
       THEN [id |-> Str(generated \o hashCode(name)), warned |-> TRUE]
       ELSE [id |-> Str(generated), warned |-> FALSE]


(***************************************************************************)
(* dedent (the tagged template of the dedent package) on one string.       *)
(***************************************************************************)
IsSpace(c) == c \in {" ", "\t", "\n", "\r"}

RECURSIVE SplitLines(_)
SplitLines(s) ==
    IF \A i \in DOMAIN s : s[i] # "\n" THEN <<s>>
    ELSE LET i == CHOOSE k \in DOMAIN s : s[k] = "\n" /\ \A j \in 1..(k - 1) : s[j] # "\n"
         IN <<SubSeq(s, 1, i - 1)>> \o SplitLines(SubSeq(s, i + 1, Len(s)))

RECURSIVE JoinLines(_)
JoinLines(ls) ==
    IF Len(ls) = 1 THEN ls[1] ELSE ls[1] \o <<"\n">> \o JoinLines(Tail(ls))

\* the length of the whitespace a line starts with
LeadingSpace(l) ==
    CHOOSE n \in 0..Len(l) :
        /\ \A i \in 1..n : IsSpace(l[i])
        /\ n = Len(l) \/ ~IsSpace(l[n + 1])

\* String.prototype.trim
Trim(s) ==
    IF \A i \in DOMAIN s : IsSpace(s[i]) THEN <<>>
    ELSE LET first == CHOOSE i \in DOMAIN s : ~IsSpace(s[i]) /\ \A j \in 1..(i - 1) : IsSpace(s[j])
             last == CHOOSE i \in DOMAIN s : ~IsSpace(s[i]) /\ \A j \in (i + 1)..Len(s) : IsSpace(s[j])
         IN SubSeq(s, first, last)

dedent(s) ==
    LET lines == SplitLines(s)
        \* the lines that match /^(\s+)\S+/
        indented == {i \in DOMAIN lines :
                        LeadingSpace(lines[i]) > 0 /\ LeadingSpace(lines[i]) < Len(lines[i])}
        mindent == CHOOSE m \in {LeadingSpace(lines[i]) : i \in indented} :
                       \A i \in indented : m <= LeadingSpace(lines[i])
        cut(l) == IF l # <<>> /\ l[1] = " " THEN SubSeq(l, mindent + 1, Len(l)) ELSE l
    IN IF indented = {} THEN Trim(s)
       ELSE Trim(JoinLines([i \in DOMAIN lines |-> cut(lines[i])]))

(***************************************************************************)
(* The child nodes of a component.  Sibling nodes are contiguous in the    *)
(* source text, so the slice from the start of the first to the end of the *)
(* last is the concatenation of their texts.                               *)
(***************************************************************************)
TextNode(s) == [type |-> "Text", text |-> s, name |-> "", body |-> <<>>]
\* {#snippet name()}body{/snippet}; body holds the text of each node of the body
SnippetNode(name, body) == [type |-> "SnippetBlock", text |-> <<>>, name |-> name, body |-> body]

RECURSIVE Concat(_)
Concat(ss) == IF ss = <<>> THEN <<>> ELSE Head(ss) \o Concat(Tail(ss))

\* rawSource.slice(nodes[0].start, nodes[nodes.length - 1].end)
SliceOfTexts(texts) == Concat(texts)

getChildrenRawSource(nodes) ==
    LET snippets == {i \in DOMAIN nodes : nodes[i].type = "SnippetBlock" /\ nodes[i].name = "children"}
        snippetBlockChildren == nodes[CHOOSE i \in snippets : \A j \in snippets : i <= j]
    IN IF Len(nodes) = 0 THEN Undefined
       ELSE IF snippets # {}
       THEN IF snippetBlockChildren.body = <<>>
            THEN Throw("TypeError: Cannot destructure property 'start' of undefined")
            ELSE Str(dedent(SliceOfTexts(snippetBlockChildren.body)))
       ELSE Str(dedent(SliceOfTexts([i \in DOMAIN nodes |-> nodes[i].text])))

(***************************************************************************)
(* State.                                                                  *)
(***************************************************************************)
VARIABLES
    \* getStoryId as a function: the arguments of one call, and what it returned
    idCall, idRet,
    \* walkOnFragment: state.stories, the two identity sets, the comment cursor
    stories, storiesIds, storiesNames, latestComment,
    \* the offset the walk has reached in the source text
    offset,
    \* the nodes visited so far, each with its start offset
    doc,
    \* the calls of logger.warn so far
    warnings,
    \* pending while the walk runs, then returned or the error thrown
    walkResult,
    \* getStoryChildrenRawSource as a function: the arguments of one call, its result
    rawCall, rawRet,
    \* parseForIndexer: its arguments and the document read (filename, the
    \* legacyTemplate option, the module script of the root)
    ixInput,
    \* results.meta, results.stories, foundMeta
    ixMeta, ixStories, foundMeta,
    \* defineMetaIdentifier, componentStoryIdentifier, componentMetaIdentifier
    defineMetaIdentifier, componentStoryIdentifier, componentMetaIdentifier,
    \* where the walk is: at the root, in the loop of the Fragment visitor, over
    ixPc,
    \* the nodes of the root fragment the Fragment visitor has gone through
    ixDoc,
    \* pending while the walk runs, then returned or the error thrown
    ixResult,
    \* extractCompiledASTNodes: its arguments (filename, process.env.NODE_ENV)
    coInput,
    \* its state: the five nodes, each undefined until found
    coState,
    \* the statements of the program body the walk has gone through
    coDoc,
    \* where it is: in the walk, over
    coPc,
    \* pending, then the bundle returned or the error thrown
    coResult,
    \* the ObjectExpression visitor of parseForIndexer: the object literal it
    \* is handed, the loop index of each of its calls on the call stack, and
    \* pending, then returned or the error thrown
    obNode, obStack, obResult

idVars == <<idCall, idRet>>
walkVars == <<stories, storiesIds, storiesNames, latestComment, offset, doc, warnings, walkResult>>
rawVars == <<rawCall, rawRet>>
ixVars == <<ixInput, ixMeta, ixStories, foundMeta, defineMetaIdentifier,
           componentStoryIdentifier, componentMetaIdentifier, ixPc, ixDoc, ixResult>>
coVars == <<coInput, coState, coDoc, coPc, coResult>>
obVars == <<obNode, obStack, obResult>>
vars == <<idVars, walkVars, rawVars, ixVars, coVars, obVars>>

NoCall == [t |-> "none"]
Pending == [t |-> "pending"]
Returned == [t |-> "returned"]

\* the passes that a specification does not run stay as constructed
IdIdle == idCall = NoCall /\ idRet = Pending
RawIdle == rawCall = NoCall /\ rawRet = Pending
IxIdle ==
    /\ ixInput = NoCall /\ ixMeta = [title |-> Undefined, tags |-> Undefined]
    /\ ixStories = <<>> /\ foundMeta = FALSE
    /\ defineMetaIdentifier = "defineMeta" /\ componentStoryIdentifier = "Story"
    /\ componentMetaIdentifier = "Meta"
    /\ ixPc = "idle" /\ ixDoc = <<>> /\ ixResult = Pending
CoIdle ==
    /\ coInput = NoCall /\ coState = NoCall /\ coDoc = <<>>
    /\ coPc = "idle" /\ coResult = Pending
ObIdle == obNode = NoCall /\ obStack = <<>> /\ obResult = Pending
WalkIdle ==
    /\ stories = <<>> /\ storiesIds = {} /\ storiesNames = {}
    /\ latestComment = Undefined /\ offset = 0 /\ doc = <<>>
    /\ warnings = 0 /\ walkResult = Pending

(***************************************************************************)
(* getStoryId, called once with arguments drawn from bounded sets.         *)
(***************************************************************************)
IdAlphabet == {"a", "b", "A", " ", "!", "\n"}
IdNames ==
    StringsUpTo(IdAlphabet, MaxNameLen)
        \cup {<<"M","y"," ","s","t","o","r","y","!","!">>}
\* the ids already assigned when the call is made
IdPool == {<<"a">>, <<"a","B">>, <<"A">>}
IdAttributeValues ==
    {Bare, Parts(<<TextPart(<<>>)>>), Parts(<<TextPart(<<"a">>)>>),
     Parts(<<TextPart(<<"x"," ","y">>)>>), Parts(<<DynExprPart>>),
     Parts(<<TextPart(<<"a">>), DynExprPart>>)}
IdAttributeLists ==
    {<<>>} \cup {<<Attr("id", v)>> : v \in IdAttributeValues}

InitGetStoryId ==
    /\ idCall \in [attributes : IdAttributeLists, name : IdNames, storiesIds : SUBSET IdPool]
    /\ idRet = Pending
    /\ WalkIdle /\ RawIdle /\ IxIdle /\ CoIdle /\ ObIdle

CallGetStoryId ==
    /\ idRet = Pending
    /\ idRet' = getStoryId(idCall.attributes, idCall.name, idCall.storiesIds)
    /\ UNCHANGED <<idCall, walkVars, rawVars, ixVars, coVars, obVars>>

NextGetStoryId == CallGetStoryId

SpecGetStoryId == InitGetStoryId /\ [][NextGetStoryId]_vars

(***************************************************************************)
(* C5                                                                      *)
(***************************************************************************)
\* the name with every run of non-word characters removed and the character
\* that follows a run upper-cased, written from the claim's words
RECURSIVE FoldUpTo(_, _)
FoldUpTo(s, n) ==
    IF n = 0 THEN <<>>
    ELSE LET r == FoldUpTo(s, n - 1)
         IN IF ~IsWordChar(s[n]) THEN r
            ELSE Append(r, IF n > 1 /\ ~IsWordChar(s[n - 1]) THEN toUpperCase(s[n]) ELSE s[n])
CamelFold(s) == FoldUpTo(s, Len(s))

\* the id attribute of the call is a literal string: one Text part
IdIsLiteral ==
    /\ idCall.attributes # <<>>
    /\ ~idCall.attributes[1].value.bare
    /\ Len(idCall.attributes[1].value.parts) = 1
    /\ idCall.attributes[1].value.parts[1].type = "Text"
IdLiteral == idCall.attributes[1].value.parts[1].data

\* C5 as claimed: getStoryId returns an explicit literal string id unchanged,
\* and with no id attribute it returns the camel-case fold of the name.
C5_AsClaimed ==
    idRet # Pending =>
        /\ IdIsLiteral => idRet.id = Str(IdLiteral)
        /\ idCall.attributes = <<>> => idRet.id = Str(CamelFold(idCall.name))

\* C5 amended: a non-empty literal id is returned unchanged, whatever the set
\* of assigned ids holds, and without a warning; with the id attribute absent
\* or empty the result is the camel-case fold of the name, followed by the hex
\* hash of the name exactly when the fold is already in the set of assigned ids.
C5_GetStoryId ==
    idRet # Pending =>
        /\ (IdIsLiteral /\ IdLiteral # <<>>) =>
               idRet = [id |-> Str(IdLiteral), warned |-> FALSE]
        /\ (idCall.attributes = <<>> \/ (IdIsLiteral /\ IdLiteral = <<>>)) =>
               /\ idRet.id.t = "string"
               /\ CamelFold(idCall.name) \notin idCall.storiesIds =>
                      idRet = [id |-> Str(CamelFold(idCall.name)), warned |-> FALSE]
               /\ CamelFold(idCall.name) \in idCall.storiesIds =>
                      /\ idRet.warned
                      /\ idRet.id.s = CamelFold(idCall.name) \o hashCode(idCall.name)

\* the example of the claim: 'My story!!' gives 'MyStory', and an explicit id
\* that is already assigned is returned all the same
C5_Witness ==
    \/ /\ idRet # Pending
       /\ idCall.name = <<"M","y"," ","s","t","o","r","y","!","!">>
       /\ idCall.attributes = <<>>
       /\ idRet.id = Str(<<"M","y","S","t","o","r","y">>)
    \/ /\ idRet # Pending
       /\ IdIsLiteral /\ IdLiteral = <<"a">> /\ <<"a">> \in idCall.storiesIds
       /\ idRet.id = Str(<<"a">>)

(***************************************************************************)
(* walkOnFragment.  The fragment is walked in preorder; the nodes are      *)
(* drawn one by one as the walk reaches them.  A node without a visitor    *)
(* (a text, an element's tags) is passed through.  The Component visitor   *)
(* does not call next(), so the nodes inside a component are not visited:  *)
(* a component is one node of the walk, whatever it holds.                 *)
(***************************************************************************)
\* nodes.storyIdentifier.name
StoryIdentifier == "Story"

\* a comment is at least <!---->, a component at least <A/>, a text one character
CommentNode(data) ==
    [type |-> "Comment", width |-> 7 + Len(data), data |-> data, name |-> "", attributes |-> <<>>, nodes |-> <<>>]
PassThroughNode(width) ==
    [type |-> "Text", width |-> width, data |-> <<>>, name |-> "", attributes |-> <<>>, nodes |-> <<>>]
ComponentNode(name, attributes, nodes) ==
    [type |-> "Component", width |-> 4, data |-> <<>>, name |-> name,
     attributes |-> attributes, nodes |-> nodes]

\* the first call of the Component visitor that throws, in the order of the code
FirstThrow(vs) ==
    LET bad == {i \in DOMAIN vs : IsThrow(vs[i])}
    IN IF bad = {} THEN Returned ELSE vs[CHOOSE i \in bad : \A j \in bad : i <= j]

Visited(node) == Append(doc, [node |-> node, start |-> offset])

InitWalk ==
    /\ stories = <<>>
    /\ storiesIds = {}
    /\ storiesNames = {}
    /\ latestComment = Undefined
    /\ offset = 0
    /\ doc = <<>>
    /\ warnings = 0
    /\ walkResult = Pending
    /\ IdIdle /\ RawIdle /\ IxIdle /\ CoIdle /\ ObIdle

\* Comment(node, { next }) { latestComment = node; next(); }
VisitComment(node, max) ==
    /\ walkResult = Pending /\ Len(doc) < max
    /\ node.type = "Comment"
    /\ latestComment' = [t |-> "comment", end |-> offset + node.width, data |-> node.data]
    /\ offset' = offset + node.width
    /\ doc' = Visited(node)
    /\ UNCHANGED <<stories, storiesIds, storiesNames, warnings, walkResult, idVars, rawVars, ixVars, coVars, obVars>>

\* a node of a type without a visitor
PassThrough(node, max) ==
    /\ walkResult = Pending /\ Len(doc) < max
    /\ node.type \notin {"Comment", "Component"}
    /\ offset' = offset + node.width
    /\ doc' = Visited(node)
    /\ UNCHANGED <<stories, storiesIds, storiesNames, latestComment, warnings, walkResult, idVars, rawVars, ixVars, coVars, obVars>>

\* a description taken from a comment that ends where the marker starts
descriptionOf_NoGap(comment, start) ==
    IF comment.t = "comment" /\ comment.end = start
    THEN Str(dedent(comment.data))
    ELSE Undefined

descriptionOf(comment, start) ==
    IF comment.t = "comment" /\ comment.end = start - 1
    THEN Str(dedent(comment.data))
    ELSE Undefined

StoryMetaOf(node, start) ==
    LET name == getStoryName(node.attributes, storiesNames)
        sourceAttribute == getSourceAttribute(node.attributes)
        childrenRawSource == getChildrenRawSource(node.nodes)
        id == IF IsThrow(name) THEN [id |-> name, warned |-> FALSE]
              ELSE getStoryId(node.attributes, name.s, storiesIds)
        description == descriptionOf(latestComment, start)
    IN [thrown |-> FirstThrow(<<name, sourceAttribute, childrenRawSource, id.id>>),
        warned |-> id.warned,
        meta |-> [id |-> id.id, name |-> name, description |-> description,
                  source |-> sourceAttribute, rawSource |-> childrenRawSource]]

\* Component(node, { state })
VisitComponent(node, max) ==
    /\ walkResult = Pending /\ Len(doc) < max
    /\ node.type = "Component"
    /\ doc' = Visited(node)
    /\ offset' = offset + node.width
    /\ UNCHANGED <<storiesIds, storiesNames, idVars, rawVars, ixVars, coVars, obVars>>
    /\ IF node.name = StoryIdentifier
       THEN LET r == StoryMetaOf(node, offset)
            IN IF IsThrow(r.thrown)
               THEN /\ walkResult' = r.thrown
                    /\ UNCHANGED <<stories, latestComment, warnings>>
               ELSE /\ stories' = [n \in DOMAIN stories \cup {r.meta.name.s} |->
                                      IF n = r.meta.name.s THEN r.meta ELSE stories[n]]
                    /\ warnings' = warnings + (IF r.warned THEN 1 ELSE 0)
                    /\ latestComment' = Undefined
                    /\ UNCHANGED walkResult
       ELSE /\ latestComment' = Undefined
            /\ UNCHANGED <<stories, warnings, walkResult>>

\* walk(fragment, state, visitors) is over: return state
ReturnState ==
    /\ walkResult = Pending
    /\ walkResult' = Returned
    /\ UNCHANGED <<stories, storiesIds, storiesNames, latestComment, offset, doc, warnings, idVars, rawVars, ixVars, coVars, obVars>>

WalkStep(pool, max) ==
    \/ \E node \in pool : VisitComment(node, max)
    \/ \E node \in pool : PassThrough(node, max)
    \/ \E node \in pool : VisitComponent(node, max)
    \/ ReturnState

(***************************************************************************)
(* The fragments walked.  Each specification walks every fragment made of  *)
(* the nodes of its pool, up to its bound.                                 *)
(***************************************************************************)
NameAttr(s) == Attr("name", Parts(<<TextPart(s)>>))
IdAttr(s) == Attr("id", Parts(<<TextPart(s)>>))

\* markers that differ in name and id: three names that fold to the same id
IdentityNames == {<<"a"," ","b">>, <<"a","!","b">>, <<"a","B">>}
IdentityIds == {<<"a","B">>, <<"k">>}
IdentityPool ==
    {ComponentNode("Story", <<NameAttr(n)>>, <<>>) : n \in IdentityNames}
        \cup {ComponentNode("Story", <<NameAttr(n), IdAttr(i)>>, <<>>) :
                  n \in IdentityNames, i \in IdentityIds}
        \cup {ComponentNode("Story", <<>>, <<>>), ComponentNode("Story", <<NameAttr(<<>>)>>, <<>>),
              CommentNode(<<"c">>), PassThroughNode(1)}

\* comments at every distance from the marker that follows
CommentPool ==
    {CommentNode(<<" ","c">>), CommentNode(<<"d">>), PassThroughNode(1), PassThroughNode(2),
     ComponentNode("Other", <<>>, <<>>),
     ComponentNode("Story", <<NameAttr(<<"a">>)>>, <<>>),
     ComponentNode("Story", <<NameAttr(<<"b">>)>>, <<>>)}

\* markers that differ in the source attribute and in their child nodes
SourceValues ==
    {Bare, Parts(<<BoolExprPart(TRUE)>>), Parts(<<BoolExprPart(FALSE)>>),
     Parts(<<TextPart(<<"s">>)>>), Parts(<<TextPart(<<>>)>>), Parts(<<DynExprPart>>),
     Parts(<<TextPart(<<"s">>), DynExprPart>>)}
SourceChildren ==
    {<<>>, <<TextNode(<<"\n"," ">>), TextNode(<<"x">>), TextNode(<<"\n">>)>>,
     <<TextNode(<<"\n">>), SnippetNode("children", <<<<" ","y"," ">>, <<"z">>>>)>>,
     <<SnippetNode("children", <<>>)>>}
SourcePool ==
    {ComponentNode("Story", <<NameAttr(<<"a">>)>>, k) : k \in SourceChildren}
        \cup {ComponentNode("Story", <<NameAttr(<<"a">>), Attr("source", v)>>, k) :
                  v \in SourceValues, k \in SourceChildren}
        \cup {ComponentNode("Story", <<Attr("source", Bare)>>, <<>>),
              CommentNode(<<"c">>), PassThroughNode(1)}

NextIdentity == WalkStep(IdentityPool, MaxNodes)
SpecIdentity == InitWalk /\ [][NextIdentity]_vars

NextComments == WalkStep(CommentPool, MaxNodes)
SpecComments == InitWalk /\ [][NextComments]_vars

NextSource == WalkStep(SourcePool, MaxSourceNodes)
SpecSource == InitWalk /\ [][NextSource]_vars


(***************************************************************************)
(* getStoryChildrenRawSource, called once with arguments drawn from        *)
(* bounded sets.  svelteASTNodes holds the snippet blocks of the root      *)
(* fragment, the setTemplate call of the instance script, and the meta     *)
(* object.                                                                 *)
(***************************************************************************)
\* extractStoryAttributesNodes({ component, attributes: ['children'] }).children
extractStoryAttributesNodes(component, name) == lookupAttribute(name, component.attributes)

\* extractStoryChildrenSnippetBlock(component)
extractStoryChildrenSnippetBlock(component) ==
    LET nodes == component.nodes
        hits == {i \in DOMAIN nodes : nodes[i].type = "SnippetBlock" /\ nodes[i].name = "children"}
    IN IF hits = {} THEN [found |-> FALSE, block |-> SnippetNode("", <<>>)]
       ELSE [found |-> TRUE, block |-> nodes[CHOOSE i \in hits : \A j \in hits : i <= j]]

\* extractMetaPropertiesNodes({ nodes, properties: ['component'] }).component
extractMetaPropertiesNodes(svelteASTNodes) == svelteASTNodes.metaComponent

\* rawCode.replace(/(\n)/g, '').trim()
sanitizeCodeSlice(rawCode) ==
    LET notNewline(c) == c # "\n"
    IN Trim(SelectSeq(rawCode, notNewline))

getSnippetBlockBodyRawCode(node) ==
    IF node.body = <<>>
    THEN Throw("TypeError: Cannot read properties of undefined (reading 'start')")
    ELSE Str(sanitizeCodeSlice(SliceOfTexts(node.body)))

\* snippetBlocks.find((snippetBlock) => name === snippetBlock.expression.name)
findTemplateSnippetBlock(name, svelteASTNodes) ==
    LET blocks == svelteASTNodes.snippetBlocks
        hits == {i \in DOMAIN blocks : blocks[i].name = name}
    IN IF hits = {} THEN [t |-> "undefined", block |-> SnippetNode("", <<>>)]
       ELSE [t |-> "block", block |-> blocks[CHOOSE i \in hits : \A j \in hits : i <= j]]

\* the function has no filename in scope: building the message of its error
\* throws a ReferenceError instead
findSetTemplateSnippetBlock(svelteASTNodes) ==
    LET setTemplateCall == svelteASTNodes.setTemplateCall
    IN IF setTemplateCall.t = "undefined"
       THEN [t |-> "undefined", block |-> SnippetNode("", <<>>)]
       ELSE IF setTemplateCall.type # "Identifier"
       THEN [t |-> "throw", msg |-> "ReferenceError: filename is not defined",
             block |-> SnippetNode("", <<>>)]
       ELSE findTemplateSnippetBlock(setTemplateCall.name, svelteASTNodes)

findChildrenPropSnippetBlock(component, svelteASTNodes) ==
    LET children == extractStoryAttributesNodes(component, "children")
        value == children.value
    IN IF ~children.found THEN [t |-> "undefined", block |-> SnippetNode("", <<>>)]
       ELSE IF value.bare \/ value.parts[1].type = "Text" \/ value.parts[1].expr # "Identifier"
       THEN [t |-> "throw", msg |-> "Invalid schema. Expected '<Story />'s attribute 'children'",
             block |-> SnippetNode("", <<>>)]
       ELSE findTemplateSnippetBlock(value.parts[1].name, svelteASTNodes)

getDefineMetaComponentName(svelteASTNodes) ==
    LET component == extractMetaPropertiesNodes(svelteASTNodes)
    IN IF component.t = "undefined" THEN Str(<<"!","u","n","s","p","e","c","i","f","i","e","d">>)
       ELSE IF component.type # "Identifier" THEN Throw("Invalid schema")
       ELSE Str(component.name)

\* `<${name} {...args} />`
Placeholder(name) ==
    <<"<">> \o name \o <<" ","{",".",".",".","a","r","g","s","}"," ","/",">">>

getStoryChildrenRawSource(component, svelteASTNodes) ==
    LET storyAttributeChildrenSnippetBlock == findChildrenPropSnippetBlock(component, svelteASTNodes)
        setTemplateSnippetBlock == findSetTemplateSnippetBlock(svelteASTNodes)
        componentName == getDefineMetaComponentName(svelteASTNodes)
        storyChildrenSnippetBlock == extractStoryChildrenSnippetBlock(component)
        nodes == component.nodes
    IN IF Len(nodes) = 0
       THEN IF storyAttributeChildrenSnippetBlock.t = "throw"
            THEN Throw(storyAttributeChildrenSnippetBlock.msg)
            ELSE IF storyAttributeChildrenSnippetBlock.t = "block"
            THEN getSnippetBlockBodyRawCode(storyAttributeChildrenSnippetBlock.block)
            ELSE IF setTemplateSnippetBlock.t = "throw"
            THEN Throw(setTemplateSnippetBlock.msg)
            ELSE IF setTemplateSnippetBlock.t = "block"
            THEN getSnippetBlockBodyRawCode(setTemplateSnippetBlock.block)
            ELSE IF IsThrow(componentName) THEN componentName
            ELSE Str(Placeholder(componentName.s))
       ELSE IF storyChildrenSnippetBlock.found
       THEN getSnippetBlockBodyRawCode(storyChildrenSnippetBlock.block)
       ELSE Str(sanitizeCodeSlice(SliceOfTexts([i \in DOMAIN nodes |-> nodes[i].text])))

\* the arguments of the calls
RawChildrenValues ==
    {Bare, Parts(<<TextPart(<<"t">>)>>), Parts(<<CallExprPart>>),
     Parts(<<IdentifierPart(<<"t">>)>>), Parts(<<IdentifierPart(<<"u">>)>>)}
RawAttributeLists == {<<>>} \cup {<<Attr("children", v)>> : v \in RawChildrenValues}
RawChildNodes ==
    {<<>>, <<TextNode(<<"\n"," ">>), TextNode(<<"x","\n","y">>), TextNode(<<"\n">>)>>,
     <<TextNode(<<"\n">>), SnippetNode("children", <<<<" ","i","\n">>, <<"j"," ">>>>)>>}
RawComponents == [attributes : RawAttributeLists, nodes : RawChildNodes]
RawSnippetBlocks ==
    {<<>>, <<SnippetNode(<<"t">>, <<<<"\n"," ","b">>, <<"\n">>>>)>>,
     <<SnippetNode(<<"u">>, <<<<"c">>>>), SnippetNode(<<"t">>, <<<<"\n"," ","b">>, <<"\n">>>>)>>,
     <<SnippetNode(<<"u">>, <<>>)>>}
RawSetTemplateCalls ==
    {[t |-> "undefined", type |-> "", name |-> <<>>],
     [t |-> "call", type |-> "Identifier", name |-> <<"t">>],
     [t |-> "call", type |-> "Identifier", name |-> <<"u">>],
     [t |-> "call", type |-> "Literal", name |-> <<>>]}
RawMetaComponents ==
    {[t |-> "undefined", type |-> "", name |-> <<>>],
     [t |-> "property", type |-> "Identifier", name |-> <<"B","t","n">>],
     [t |-> "property", type |-> "MemberExpression", name |-> <<>>]}
RawASTNodes ==
    [snippetBlocks : RawSnippetBlocks, setTemplateCall : RawSetTemplateCalls,
     metaComponent : RawMetaComponents]

InitRawSource ==
    /\ rawCall \in [component : RawComponents, svelteASTNodes : RawASTNodes]
    /\ rawRet = Pending
    /\ IdIdle /\ WalkIdle /\ IxIdle /\ CoIdle /\ ObIdle

CallGetStoryChildrenRawSource ==
    /\ rawRet = Pending
    /\ rawRet' = getStoryChildrenRawSource(rawCall.component, rawCall.svelteASTNodes)
    /\ UNCHANGED <<rawCall, idVars, walkVars, ixVars, coVars, obVars>>

NextRawSource == CallGetStoryChildrenRawSource

SpecRawSource == InitRawSource /\ [][NextRawSource]_vars

(***************************************************************************)
(* C7                                                                      *)
(***************************************************************************)
\* the call is for a self-closing marker whose children attribute is {name}
RawChildrenIdentifier ==
    /\ rawCall.component.nodes = <<>>
    /\ rawCall.component.attributes # <<>>
    /\ ~rawCall.component.attributes[1].value.bare
    /\ rawCall.component.attributes[1].value.parts[1].type = "ExpressionTag"
    /\ rawCall.component.attributes[1].value.parts[1].expr = "Identifier"
RawChildrenName == rawCall.component.attributes[1].value.parts[1].name
RawSnippetNames ==
    {rawCall.svelteASTNodes.snippetBlocks[i].name : i \in DOMAIN rawCall.svelteASTNodes.snippetBlocks}

\* C7 as claimed: for a self-closing marker whose children attribute names an
\* identifier that no snippet block declares, getStoryChildrenRawSource throws.
C7_MissingSnippetThrows ==
    (rawRet # Pending /\ RawChildrenIdentifier /\ RawChildrenName \notin RawSnippetNames)
        => IsThrow(rawRet)


(***************************************************************************)
(* The fragment walked so far, read from doc.                              *)
(***************************************************************************)
IsMarker(i) == doc[i].node.type = "Component" /\ doc[i].node.name = StoryIdentifier
\* the walk stops at the node whose visitor throws, so that node is the last of doc
Recorded(i) == IsMarker(i) /\ (i < Len(doc) \/ ~IsThrow(walkResult))
HasAttr(i, a) == \E k \in DOMAIN doc[i].node.attributes : doc[i].node.attributes[k].name = a
AttrValue(i, a) ==
    doc[i].node.attributes[CHOOSE k \in DOMAIN doc[i].node.attributes :
                               doc[i].node.attributes[k].name = a].value
\* attribute a of node i is one static text
IsLiteral(i, a) ==
    /\ HasAttr(i, a)
    /\ ~AttrValue(i, a).bare
    /\ Len(AttrValue(i, a).parts) = 1
    /\ AttrValue(i, a).parts[1].type = "Text"
Literal(i, a) == AttrValue(i, a).parts[1].data
DeclaredName(i) == Literal(i, "name")
\* marker i is the last marker with its name: its entry is the one the catalog holds
LastOfName(i) ==
    \A j \in (i + 1)..Len(doc) : Recorded(j) => DeclaredName(j) # DeclaredName(i)
Markers == {i \in DOMAIN doc : Recorded(i)}

(***************************************************************************)
(* C1                                                                      *)
(***************************************************************************)
\* C1 as claimed: a marker whose name equals the name of an earlier marker of the
\* document makes the walk throw and is not recorded; so after a walk that
\* returned, every recognized marker has a catalog key of its own, its name.
C1_DuplicateNameIsFatal ==
    /\ \A i, j \in DOMAIN doc :
           (/\ i < j /\ Recorded(i) /\ IsMarker(j)
            /\ IsLiteral(j, "name") /\ DeclaredName(j) = DeclaredName(i))
               => (j = Len(doc) /\ IsThrow(walkResult))
    /\ walkResult = Returned =>
           /\ Cardinality(DOMAIN stories) = Cardinality(Markers)
           /\ \A i \in Markers : DeclaredName(i) \in DOMAIN stories

(***************************************************************************)
(* C2                                                                      *)
(***************************************************************************)
\* marker i was given no id of its own: getStoryId derives one from the name
Derives(i) == Recorded(i) /\ (~HasAttr(i, "id") \/ (IsLiteral(i, "id") /\ Literal(i, "id") = <<>>))
\* an earlier marker derived the same id
Collides(j) ==
    \E i \in 1..(j - 1) :
        Derives(i) /\ CamelFold(DeclaredName(i)) = CamelFold(DeclaredName(j))

\* C2 as claimed: of the markers that derive the same id, the first keeps the
\* bare derived id, each later one gets the derived id followed by the hex hash
\* of its name and a warning is logged; an explicit id is recorded as it is.
C2_CollidingIdsAreSuffixed ==
    \A j \in DOMAIN doc :
        (Recorded(j) /\ LastOfName(j)) =>
            /\ (Derives(j) /\ ~Collides(j)) =>
                   stories[DeclaredName(j)].id = Str(CamelFold(DeclaredName(j)))
            /\ (Derives(j) /\ Collides(j)) =>
                   /\ stories[DeclaredName(j)].id =
                          Str(CamelFold(DeclaredName(j)) \o hashCode(DeclaredName(j)))
                   /\ warnings > 0
            /\ ~Derives(j) => stories[DeclaredName(j)].id = Str(Literal(j, "id"))

(***************************************************************************)
(* C3                                                                      *)
(***************************************************************************)
\* C3 as claimed: in the catalog of a walk that returned, the ids of the
\* entries are pairwise distinct.
C3_IdsAreDistinct ==
    walkResult = Returned =>
        \A n, m \in DOMAIN stories : n # m => stories[n].id # stories[m].id

(***************************************************************************)
(* C4                                                                      *)
(***************************************************************************)
\* the comments visited before node i that end one character before it starts
TouchingComments(i) ==
    {j \in 1..(i - 1) :
        /\ doc[j].node.type = "Comment"
        /\ doc[j].start + doc[j].node.width = doc[i].start - 1}
ExpectedDescription(i) ==
    IF TouchingComments(i) = {} THEN Undefined
    ELSE Str(dedent(doc[CHOOSE j \in TouchingComments(i) : TRUE].node.data))

\* C4: the description of every marker processed is the dedented text of the
\* comment that ends at the marker's start minus 1, and undefined when no
\* visited comment ends there; the cursor holds the latest comment visited
\* since the last component, and no comment is the description of two markers.
C4_DescriptionIffTouching ==
    /\ \A i \in Markers :
           LastOfName(i) => stories[DeclaredName(i)].description = ExpectedDescription(i)
    /\ \A i, k \in Markers : i # k => TouchingComments(i) \cap TouchingComments(k) = {}
    /\ (doc # <<>> /\ ~IsThrow(walkResult)) =>
           latestComment =
               IF doc[Len(doc)].node.type = "Component" THEN Undefined
               ELSE IF \A j \in DOMAIN doc : doc[j].node.type # "Comment" THEN Undefined
               ELSE LET last == CHOOSE j \in DOMAIN doc :
                                    /\ doc[j].node.type = "Comment"
                                    /\ \A k \in (j + 1)..Len(doc) : doc[k].node.type # "Comment"
                    IN IF \E k \in (last + 1)..Len(doc) : doc[k].node.type = "Component"
                       THEN Undefined
                       ELSE [t |-> "comment", end |-> doc[last].start + doc[last].node.width,
                             data |-> doc[last].node.data]

\* a comment, one character, a marker that takes the comment as description,
\* then a second marker, which has no description
C4_Witness ==
    /\ Len(doc) = 4
    /\ doc[1].node.type = "Comment" /\ doc[2].node.width = 1 /\ IsMarker(3) /\ IsMarker(4)
    /\ DeclaredName(3) # DeclaredName(4)
    /\ stories[DeclaredName(3)].description = Str(<<"c">>)
    /\ stories[DeclaredName(4)].description = Undefined

(***************************************************************************)
(* C6                                                                      *)
(***************************************************************************)
\* the node the step visits, and whether the step is the visit of a marker
\* whose name is given and whose child nodes can be sliced
JustVisited == doc'[Len(doc')].node
VisitsSoundMarker ==
    /\ doc' # doc
    /\ JustVisited.type = "Component" /\ JustVisited.name = StoryIdentifier
    /\ \E k \in DOMAIN JustVisited.attributes : JustVisited.attributes[k].name = "name"
    /\ ~IsThrow(getChildrenRawSource(JustVisited.nodes))
SourceOfVisited ==
    LET ks == {k \in DOMAIN JustVisited.attributes : JustVisited.attributes[k].name = "source"}
    IN IF ks = {} THEN [given |-> FALSE, value |-> Bare]
       ELSE [given |-> TRUE, value |-> JustVisited.attributes[CHOOSE k \in ks : TRUE].value]
RecordedSource(v) ==
    /\ walkResult' = Pending
    /\ <<"a">> \in DOMAIN stories'
    /\ stories'[<<"a">>].source = v

\* C6: the visit of a marker records source as undefined when the attribute is
\* absent, as true when it is bare, as the boolean of a single literal-boolean
\* expression, as the text of a single static text; for any other value the
\* walk throws and the catalog is left as it was.
C6_Step ==
    VisitsSoundMarker =>
        LET src == SourceOfVisited
            parts == src.value.parts
        IN IF ~src.given THEN RecordedSource(Undefined)
           ELSE IF src.value.bare THEN RecordedSource(Bool(TRUE))
           ELSE IF Len(parts) = 1 /\ parts[1].type = "ExpressionTag" /\ parts[1].expr = "LiteralBoolean"
           THEN RecordedSource(Bool(parts[1].b))
           ELSE IF Len(parts) = 1 /\ parts[1].type = "Text"
           THEN RecordedSource(Str(parts[1].data))
           ELSE IsThrow(walkResult') /\ stories' = stories
C6_SourceAttribute == [][C6_Step]_vars

\* the walk has thrown at a marker whose source is a dynamic expression, after
\* it recorded a marker whose source is a text
C6_Witness ==
    /\ Len(doc) = 2
    /\ IsThrow(walkResult)
    /\ HasAttr(2, "source") /\ AttrValue(2, "source") = Parts(<<DynExprPart>>)
    /\ <<"a">> \in DOMAIN stories /\ stories[<<"a">>].source = Str(<<"s">>)

(***************************************************************************)
(* parseForIndexer.  walk starts at the Root node.  The Root visitor       *)
(* visits the fragment and nothing else, and does not call next(): the     *)
(* module script is not walked, so the Script, Program, ImportDeclaration, *)
(* VariableDeclaration, ObjectExpression and Property visitors are never   *)
(* called, and results.meta, foundMeta and the three identifiers stay as   *)
(* constructed.  The Fragment visitor visits the Component nodes among the *)
(* fragment's own nodes; the Component visitor visits nothing.             *)
(***************************************************************************)
MissingModuleTagError(filename) ==
    [t |-> "throw", msg |-> "MissingModuleTagError", filename |-> filename]
AttributeError(msg, filename) == [t |-> "throw", msg |-> msg, filename |-> filename]

\* getStringValueFromAttribute({ component, node, filename })
getStringValueFromAttribute(attribute, filename) ==
    IF ~attribute.found THEN Undefined
    ELSE IF ~attribute.value.bare /\ Len(attribute.value.parts) = 1
            /\ attribute.value.parts[1].type = "Text"
    THEN Str(attribute.value.parts[1].data)
    ELSE AttributeError("AttributeNotStringError", filename)

\* getArrayOfStringsValueFromAttribute({ component, node, filename })
getArrayOfStringsValueFromAttribute(attribute, filename) ==
    IF ~attribute.found THEN [t |-> "array", a |-> <<>>]
    ELSE IF ~attribute.value.bare /\ Len(attribute.value.parts) = 1
            /\ attribute.value.parts[1].expr = "ArrayOfStringLiterals"
    THEN [t |-> "array", a |-> attribute.value.parts[1].data]
    ELSE AttributeError("AttributeNotArrayOfStringsError", filename)

\* the shared rules that derive a story's name from its export name, and its
\* export name from its name
storyNameFromExport(exportName) == [t |-> "nameOf", s |-> exportName]
storyNameToExportName(name) == [t |-> "exportNameOf", s |-> name]

\* getStoryIdentifiers({ component, nameNode, exportNameNode, filename })
getStoryIdentifiers(nameNode, exportNameNode, filename) ==
    LET name == getStringValueFromAttribute(nameNode, filename)
        exportName == getStringValueFromAttribute(exportNameNode, filename)
    IN IF IsThrow(exportName) THEN [thrown |-> exportName, exportName |-> Undefined, name |-> Undefined]
       ELSE IF IsThrow(name) THEN [thrown |-> name, exportName |-> Undefined, name |-> Undefined]
       ELSE IF exportName.t = "undefined" /\ name.t = "undefined"
       THEN [thrown |-> AttributeError("NoStoryIdentifierError", filename),
             exportName |-> Undefined, name |-> Undefined]
       ELSE [thrown |-> Returned,
             exportName |-> IF exportName.t = "undefined" THEN storyNameToExportName(name.s)
                            ELSE exportName,
             name |-> IF name.t = "undefined" THEN storyNameFromExport(exportName.s) ELSE name]

\* a node of the markup; inner holds the component nodes inside it, in document order
IndexNode(type, name, attributes, inner) ==
    [type |-> type, name |-> name, attributes |-> attributes, inner |-> inner]

\* if (!module && !legacyTemplate)
moduleTagIsMissing_LegacyIgnored(module, legacyTemplate) == module.t = "undefined"

moduleTagIsMissing(module, legacyTemplate) == module.t = "undefined" /\ ~legacyTemplate

\* Root(node, context)
VisitRoot ==
    /\ ixPc = "root"
    /\ IF moduleTagIsMissing(ixInput.module, ixInput.legacyTemplate)
       THEN ixResult' = MissingModuleTagError(ixInput.filename) /\ ixPc' = "over"
       ELSE ixPc' = "fragment" /\ UNCHANGED ixResult
    /\ UNCHANGED <<ixInput, ixMeta, ixStories, foundMeta, defineMetaIdentifier,
                   componentStoryIdentifier, componentMetaIdentifier, ixDoc>>
    /\ UNCHANGED <<idVars, walkVars, rawVars, coVars, obVars>>

\* the attributes of a <Meta> component: each value is extracted and compared
\* (===) with state.meta, which assigns nothing; the extraction may throw
MetaAttributesThrow(node, filename) ==
    LET attributes == node.attributes
        value(i) ==
            IF attributes[i].name = "title"
            THEN getStringValueFromAttribute([found |-> TRUE, value |-> attributes[i].value], filename)
            ELSE IF attributes[i].name = "tags"
            THEN getArrayOfStringsValueFromAttribute(
                     [found |-> TRUE, value |-> attributes[i].value], filename)
            ELSE Undefined
    IN FirstThrow([i \in DOMAIN attributes |-> value(i)])

\* state.stories.push({ exportName, name, tags }), at the other end
pushStory_AtFront(list, entry) == <<entry>> \o list

pushStory(list, entry) == Append(list, entry)

\* Component(node, context), called by the loop of Fragment(node, context)
IndexComponent(node) ==
    /\ ixPc = "fragment" /\ Len(ixDoc) < MaxIndexNodes
    /\ node.type = "Component"
    /\ ixDoc' = Append(ixDoc, node)
    /\ LET filename == ixInput.filename
           metaThrown ==
               IF ~foundMeta /\ ixInput.legacyTemplate /\ node.name = componentMetaIdentifier
               THEN MetaAttributesThrow(node, filename)
               ELSE Returned
           identifiers ==
               getStoryIdentifiers(lookupAttribute("name", node.attributes),
                                   lookupAttribute("exportName", node.attributes), filename)
           tags ==
               getArrayOfStringsValueFromAttribute(lookupAttribute("tags", node.attributes), filename)
       IN IF IsThrow(metaThrown)
          THEN ixResult' = metaThrown /\ ixPc' = "over" /\ UNCHANGED ixStories
          ELSE IF node.name # componentStoryIdentifier
          THEN UNCHANGED <<ixResult, ixPc, ixStories>>
          ELSE IF IsThrow(identifiers.thrown)
          THEN ixResult' = identifiers.thrown /\ ixPc' = "over" /\ UNCHANGED ixStories
          ELSE IF IsThrow(tags)
          THEN ixResult' = tags /\ ixPc' = "over" /\ UNCHANGED ixStories
          ELSE /\ ixStories' = pushStory(ixStories, [exportName |-> identifiers.exportName,
                                                    name |-> identifiers.name, tags |-> tags.a])
               /\ UNCHANGED <<ixResult, ixPc>>
    /\ UNCHANGED <<ixInput, ixMeta, foundMeta, defineMetaIdentifier,
                   componentStoryIdentifier, componentMetaIdentifier>>
    /\ UNCHANGED <<idVars, walkVars, rawVars, coVars, obVars>>

\* the loop of the Fragment visitor passes a node that is not a Component
SkipNode(node) ==
    /\ ixPc = "fragment" /\ Len(ixDoc) < MaxIndexNodes
    /\ node.type # "Component"
    /\ ixDoc' = Append(ixDoc, node)
    /\ UNCHANGED <<ixInput, ixMeta, ixStories, foundMeta, defineMetaIdentifier,
                   componentStoryIdentifier, componentMetaIdentifier, ixPc, ixResult>>
    /\ UNCHANGED <<idVars, walkVars, rawVars, coVars, obVars>>

\* the loop is over and walk returns: return results
ReturnResults ==
    /\ ixPc = "fragment"
    /\ ixPc' = "over"
    /\ ixResult' = Returned
    /\ UNCHANGED <<ixInput, ixMeta, ixStories, foundMeta, defineMetaIdentifier,
                   componentStoryIdentifier, componentMetaIdentifier, ixDoc>>
    /\ UNCHANGED <<idVars, walkVars, rawVars, coVars, obVars>>

\* the documents read
TagsAttr(elements) == Attr("tags", Parts(<<ArrayExprPart(elements)>>))
IndexStory(attributes) == IndexNode("Component", "Story", attributes, <<>>)
IndexPool ==
    {IndexStory(<<NameAttr(<<"A">>)>>),
     IndexStory(<<NameAttr(<<"B">>), TagsAttr(<<<<"t">>>>)>>),
     IndexStory(<<Attr("exportName", Parts(<<TextPart(<<"E">>)>>))>>),
     IndexStory(<<>>),
     IndexStory(<<NameAttr(<<"A">>), Attr("tags", Parts(<<DynExprPart>>))>>),
     IndexNode("Component", "Meta", <<Attr("title", Parts(<<TextPart(<<"T">>)>>)),
                                      TagsAttr(<<<<"m">>>>)>>, <<>>),
     IndexNode("Component", "Meta", <<Attr("title", Parts(<<DynExprPart>>))>>, <<>>),
     IndexNode("Component", "Other", <<>>, <<IndexStory(<<NameAttr(<<"I">>)>>)>>),
     IndexNode("RegularElement", "div", <<>>, <<IndexStory(<<NameAttr(<<"N">>)>>)>>),
     IndexNode("Text", "", <<>>, <<>>)}

\* the module script: none, or one whose meta object is the first argument of
\* defineMeta or the value of export const meta
NoModule == [t |-> "undefined", form |-> "", title |-> Undefined, tags |-> Undefined]
ModuleScript(form, title, tags) == [t |-> "script", form |-> form, title |-> title, tags |-> tags]
IndexModules ==
    {NoModule,
     ModuleScript("defineMeta", Str(<<"T">>), [t |-> "array", a |-> <<<<"x">>, <<"y">>>>]),
     ModuleScript("defineMeta", Undefined, Undefined),
     ModuleScript("export const meta", Str(<<"L">>), Undefined)}
Filenames == {"a.stories.svelte", "b.stories.svelte"}

InitIndexer ==
    /\ ixInput \in [filename : Filenames, legacyTemplate : BOOLEAN, module : IndexModules]
    /\ ixMeta = [title |-> Undefined, tags |-> Undefined]
    /\ ixStories = <<>>
    /\ foundMeta = FALSE
    /\ defineMetaIdentifier = "defineMeta"
    /\ componentStoryIdentifier = "Story"
    /\ componentMetaIdentifier = "Meta"
    /\ ixPc = "root"
    /\ ixDoc = <<>>
    /\ ixResult = Pending
    /\ IdIdle /\ WalkIdle /\ RawIdle /\ CoIdle /\ ObIdle

NextIndexer ==
    \/ VisitRoot
    \/ \E node \in IndexPool : IndexComponent(node)
    \/ \E node \in IndexPool : SkipNode(node)
    \/ ReturnResults

SpecIndexer == InitIndexer /\ [][NextIndexer]_vars

(***************************************************************************)
(* The markup read so far, from ixDoc.                                     *)
(***************************************************************************)
IsStoryComponent(node) == node.type = "Component" /\ node.name = componentStoryIdentifier
\* the Component visitor throws at the last node of ixDoc or not at all
IndexWalked(i) == i < Len(ixDoc) \/ ~IsThrow(ixResult)
TextOf(node, a) ==
    node.attributes[CHOOSE k \in DOMAIN node.attributes : node.attributes[k].name = a].value.parts[1].data
Gives(node, a) == \E k \in DOMAIN node.attributes : node.attributes[k].name = a
\* what the claim says a marker yields
EntryOf(node) ==
    [exportName |-> IF Gives(node, "exportName") THEN Str(TextOf(node, "exportName"))
                    ELSE storyNameToExportName(TextOf(node, "name")),
     name |-> IF Gives(node, "name") THEN Str(TextOf(node, "name"))
              ELSE storyNameFromExport(TextOf(node, "exportName")),
     tags |-> IF Gives(node, "tags") THEN TextOf(node, "tags") ELSE <<>>]

\* the entries of the markers among the first n nodes of the root fragment
RECURSIVE TopLevelEntries(_)
TopLevelEntries(n) ==
    IF n = 0 THEN <<>>
    ELSE IF IsStoryComponent(ixDoc[n]) /\ IndexWalked(n)
    THEN Append(TopLevelEntries(n - 1), EntryOf(ixDoc[n]))
    ELSE TopLevelEntries(n - 1)

\* the same, with the markers inside each node after the node itself
RECURSIVE EntriesOfNodes(_)
EntriesOfNodes(nodes) ==
    IF nodes = <<>> THEN <<>>
    ELSE (IF IsStoryComponent(Head(nodes)) THEN <<EntryOf(Head(nodes))>> ELSE <<>>)
             \o EntriesOfNodes(Head(nodes).inner) \o EntriesOfNodes(Tail(nodes))

IsPrefix(a, b) == Len(a) <= Len(b) /\ a = SubSeq(b, 1, Len(a))

(***************************************************************************)
(* C8                                                                      *)
(***************************************************************************)
\* C8: without a module script and without the legacy flag the walk throws
\* MissingModuleTagError with the filename before any node of the markup is
\* reached; the error is thrown in no other case, and with the legacy flag a
\* document without module script has its markers indexed.
C8_MissingModuleTag ==
    /\ (ixInput.module.t = "undefined" /\ ~ixInput.legacyTemplate /\ ixPc # "root") =>
           /\ ixResult = MissingModuleTagError(ixInput.filename)
           /\ ixStories = <<>> /\ ixDoc = <<>>
    /\ (IsThrow(ixResult) /\ ixResult.msg = "MissingModuleTagError") =>
           ixInput.module.t = "undefined" /\ ~ixInput.legacyTemplate
    /\ (ixInput.module.t = "undefined" /\ ixInput.legacyTemplate /\ ixResult = Returned) =>
           Len(ixStories) = Cardinality({i \in DOMAIN ixDoc : IsStoryComponent(ixDoc[i])})

\* the error has been thrown for b.stories.svelte
C8_Witness ==
    /\ ixInput.module.t = "undefined" /\ ~ixInput.legacyTemplate
    /\ ixResult = MissingModuleTagError("b.stories.svelte")

\* a document without module script, read with the legacy flag, has returned
\* two stories
C8_LegacyIndexed ==
    /\ ixInput.module.t = "undefined" /\ ixInput.legacyTemplate
    /\ ixResult = Returned /\ Len(ixStories) = 2

(***************************************************************************)
(* C9                                                                      *)
(***************************************************************************)
\* C9 as claimed: the stories returned are the entries of all the marker
\* components of the markup, in document order.
C9_EveryMarkerInOrder ==
    ixResult = Returned => ixStories = EntriesOfNodes(ixDoc)

\* C9 amended: at every point of the walk the stories are the entries of the
\* marker components that are the root fragment's own nodes, one each, in
\* document order (a marker inside an element or another component is not
\* indexed), and a step only appends to them.
C9_TopLevelMarkersInOrder ==
    /\ [](ixStories = TopLevelEntries(Len(ixDoc)))
    /\ [][IsPrefix(ixStories, ixStories')]_vars

\* three markers have been indexed, the middle one with tags
C9_Witness ==
    /\ ixResult = Returned
    /\ Len(ixStories) = 3
    /\ ixStories[1].name = Str(<<"A">>)
    /\ ixStories[2].tags = <<<<"t">>>>
    /\ ixStories[3].exportName = Str(<<"E">>)

(***************************************************************************)
(* C10                                                                     *)
(***************************************************************************)
\* the meta object of the document is one parseForIndexer is to read
MetaObjectGiven ==
    /\ ixInput.module.t = "script"
    /\ \/ ixInput.module.form = "defineMeta"
       \/ ixInput.module.form = "export const meta" /\ ixInput.legacyTemplate

\* C10 as claimed: a literal title and an array of literal tags in the meta
\* object are the meta.title and meta.tags of the result.
C10_MetaFromModule ==
    (ixResult = Returned /\ MetaObjectGiven) =>
        /\ ixInput.module.title.t = "string" => ixMeta.title = ixInput.module.title
        /\ ixInput.module.tags.t = "array" => ixMeta.tags = ixInput.module.tags

(***************************************************************************)
(* extractCompiledASTNodes.  walk starts at the Program node, which has no *)
(* visitor: the statements of its body are visited in order.  A visitor    *)
(* that does not call next() ends the descent there: nothing inside an     *)
(* import, a variable declaration, a default export or a function          *)
(* declaration is visited, but for the specifiers that the                 *)
(* ImportDeclaration visitor visits itself.  A node without a visitor is   *)
(* descended into.                                                         *)
(***************************************************************************)
\* pkg.name
PkgName == "@storybook/addon-svelte-csf"
AST_NODES_NAMES == [defineMeta |-> "defineMeta", Story |-> "Story"]

\* the nodes of a compiled program
IdentifierNode(name) == [type |-> "Identifier", name |-> name]
ImportSpecifierNode(type, imported, local) ==
    [type |-> type, imported |-> imported, local |-> local]
ImportDeclarationNode(source, specifiers) ==
    [type |-> "ImportDeclaration", source |-> source, specifiers |-> specifiers]
\* a property key: value of an object pattern, both identifiers
PatternProperty(key, value) ==
    [type |-> "Property", key |-> IdentifierNode(key), value |-> IdentifierNode(value)]
\* declarations[0]: id is an object pattern with these properties or an
\* identifier, init a call of callee or a literal
VariableDeclarationNode(idType, properties, initType, callee) ==
    [type |-> "VariableDeclaration", idType |-> idType, properties |-> properties,
     initType |-> initType, callee |-> IdentifierNode(callee)]
\* id is null for an anonymous function
FunctionDeclarationNode(id, body) ==
    [type |-> "FunctionDeclaration", id |-> id, body |-> body]
ExportDefaultDeclarationNode(declaration) ==
    [type |-> "ExportDefaultDeclaration", declaration |-> declaration]
BlockStatementNode(body) == [type |-> "BlockStatement", body |-> body]

Found(node) == [t |-> "node", node |-> node]
CompiledError(what, filename) ==
    [t |-> "throw", msg |-> what, filename |-> filename]
DefaultOrNamespaceImport == "Don't use the default/namespace import"
CouldNotFind ==
    [defineMetaImport |-> "Could not find 'defineMeta' imported",
     defineMetaVariableDeclaration |-> "Could not find 'defineMeta({ ... })'",
     exportDefault |-> "Could not find 'export default'",
     storyIdentifier |-> "Could not find 'Story' identifier",
     storiesFunctionDeclaration |-> "Could not find the stories component function"]

\* name.endsWith(suffix)
endsWith(name, suffix) ==
    /\ Len(suffix) <= Len(name)
    /\ SubSeq(name, Len(name) - Len(suffix) + 1, Len(name)) = suffix

\* fnDeclaration.id?.name.endsWith('_stories')
isStoriesComponentFn(fnDeclaration) ==
    /\ fnDeclaration.id.t = "string"
    /\ endsWith(fnDeclaration.id.s, <<"_","s","t","o","r","i","e","s">>)

\* ImportSpecifier(node, {})
ImportSpecifier(node, state) ==
    IF node.imported = AST_NODES_NAMES.defineMeta
    THEN [state EXCEPT !.defineMetaImport = Found(node)]
    ELSE state

\* the loop of ImportDeclaration(node, { state, visit }) over the specifiers
RECURSIVE visitSpecifiers(_, _, _)
visitSpecifiers(specifiers, state, filename) ==
    IF specifiers = <<>> THEN [thrown |-> Returned, state |-> state]
    ELSE IF Head(specifiers).type # "ImportSpecifier"
    THEN [thrown |-> CompiledError(DefaultOrNamespaceImport, filename), state |-> state]
    ELSE visitSpecifiers(Tail(specifiers), ImportSpecifier(Head(specifiers), state), filename)

ImportDeclaration(node, state, filename) ==
    IF node.source = PkgName
    THEN visitSpecifiers(node.specifiers, state, filename)
    ELSE [thrown |-> Returned, state |-> state]

VariableDeclaration(node, state) ==
    IF /\ node.idType = "ObjectPattern"
       /\ node.initType = "CallExpression"
       /\ node.callee.type = "Identifier"
       /\ state.defineMetaImport.t = "node"
       /\ node.callee.name = state.defineMetaImport.node.local
    THEN LET properties == node.properties
             hits == {i \in DOMAIN properties :
                         /\ properties[i].type = "Property"
                         /\ properties[i].key.type = "Identifier"
                         /\ properties[i].key.name = AST_NODES_NAMES.Story
                         /\ properties[i].value.type = "Identifier"}
             last == CHOOSE i \in hits : \A j \in hits : j <= i
         IN [state EXCEPT !.defineMetaVariableDeclaration = Found(node),
                          !.storyIdentifier =
                              IF hits = {} THEN @ ELSE Found(properties[last].value)]
    ELSE state

ExportDefaultDeclaration(node, state, NODE_ENV) ==
    IF /\ NODE_ENV = "production"
       /\ node.declaration.type = "FunctionDeclaration"
       /\ isStoriesComponentFn(node.declaration)
    THEN [state EXCEPT !.exportDefault = Found(node),
                       !.storiesFunctionDeclaration = Found(node.declaration)]
    ELSE [state EXCEPT !.exportDefault = Found(node)]

FunctionDeclaration(node, state) ==
    IF isStoriesComponentFn(node)
    THEN [state EXCEPT !.storiesFunctionDeclaration = Found(node)]
    ELSE state

\* the default descent of walk into a node without a visitor: the nodes
\* inside it are visited in order (no import can be among them)
RECURSIVE visitAll(_, _, _)
visitAll(nodes, state, NODE_ENV) ==
    IF nodes = <<>> THEN state
    ELSE LET node == Head(nodes)
             after ==
                 IF node.type = "VariableDeclaration" THEN VariableDeclaration(node, state)
                 ELSE IF node.type = "FunctionDeclaration" THEN FunctionDeclaration(node, state)
                 ELSE IF node.type = "ExportDefaultDeclaration"
                 THEN ExportDefaultDeclaration(node, state, NODE_ENV)
                 ELSE visitAll(node.body, state, NODE_ENV)
         IN visitAll(Tail(nodes), after, NODE_ENV)

\* the five checks after the walk, and the bundle returned; without its
\* fourth check
returnCompiledASTNodes_NoStoryIdentifierCheck(state, filename) ==
    IF state.defineMetaImport.t = "undefined"
    THEN CompiledError(CouldNotFind.defineMetaImport, filename)
    ELSE IF state.defineMetaVariableDeclaration.t = "undefined"
    THEN CompiledError(CouldNotFind.defineMetaVariableDeclaration, filename)
    ELSE IF state.exportDefault.t = "undefined"
    THEN CompiledError(CouldNotFind.exportDefault, filename)
    ELSE IF state.storiesFunctionDeclaration.t = "undefined"
    THEN CompiledError(CouldNotFind.storiesFunctionDeclaration, filename)
    ELSE [t |-> "bundle", nodes |-> state]

returnCompiledASTNodes(state, filename) ==
    IF state.defineMetaImport.t = "undefined"
    THEN CompiledError(CouldNotFind.defineMetaImport, filename)
    ELSE IF state.defineMetaVariableDeclaration.t = "undefined"
    THEN CompiledError(CouldNotFind.defineMetaVariableDeclaration, filename)
    ELSE IF state.exportDefault.t = "undefined"
    THEN CompiledError(CouldNotFind.exportDefault, filename)
    ELSE IF state.storyIdentifier.t = "undefined"
    THEN CompiledError(CouldNotFind.storyIdentifier, filename)
    ELSE IF state.storiesFunctionDeclaration.t = "undefined"
    THEN CompiledError(CouldNotFind.storiesFunctionDeclaration, filename)
    ELSE [t |-> "bundle", nodes |-> state]

\* the walk reaches a statement of the program body
CompiledStep(node) ==
    /\ coPc = "walk" /\ Len(coDoc) < MaxStatements
    /\ coDoc' = Append(coDoc, node)
    /\ UNCHANGED coInput
    /\ UNCHANGED <<idVars, walkVars, rawVars, ixVars, obVars>>

AtImportDeclaration(node) ==
    /\ node.type = "ImportDeclaration"
    /\ CompiledStep(node)
    /\ LET visited == ImportDeclaration(node, coState, coInput.filename)
       IN IF IsThrow(visited.thrown)
          THEN coResult' = visited.thrown /\ coPc' = "over" /\ coState' = visited.state
          ELSE coState' = visited.state /\ UNCHANGED <<coPc, coResult>>

AtVariableDeclaration(node) ==
    /\ node.type = "VariableDeclaration"
    /\ CompiledStep(node)
    /\ coState' = VariableDeclaration(node, coState)
    /\ UNCHANGED <<coPc, coResult>>

AtExportDefaultDeclaration(node) ==
    /\ node.type = "ExportDefaultDeclaration"
    /\ CompiledStep(node)
    /\ coState' = ExportDefaultDeclaration(node, coState, coInput.NODE_ENV)
    /\ UNCHANGED <<coPc, coResult>>

AtFunctionDeclaration(node) ==
    /\ node.type = "FunctionDeclaration"
    /\ CompiledStep(node)
    /\ coState' = FunctionDeclaration(node, coState)
    /\ UNCHANGED <<coPc, coResult>>

\* a statement without a visitor
Descend(node) ==
    /\ node.type = "BlockStatement"
    /\ CompiledStep(node)
    /\ coState' = visitAll(node.body, coState, coInput.NODE_ENV)
    /\ UNCHANGED <<coPc, coResult>>

\* walk has returned
ReturnCompiledASTNodes ==
    /\ coPc = "walk"
    /\ coPc' = "over"
    /\ coResult' = returnCompiledASTNodes(coState, coInput.filename)
    /\ UNCHANGED <<coInput, coState, coDoc>>
    /\ UNCHANGED <<idVars, walkVars, rawVars, ixVars, obVars>>

\* the programs read
NamedSpecifier(imported, local) == ImportSpecifierNode("ImportSpecifier", imported, local)
StoriesName == Str(<<"B","_","s","t","o","r","i","e","s">>)
DefineMetaCall(properties, callee) ==
    VariableDeclarationNode("ObjectPattern", properties, "CallExpression", callee)
CompiledPool ==
    {ImportDeclarationNode(PkgName, <<NamedSpecifier("defineMeta", "defineMeta")>>),
     ImportDeclarationNode(PkgName, <<NamedSpecifier("setTemplate", "setTemplate"),
                                      NamedSpecifier("defineMeta", "dm")>>),
     ImportDeclarationNode(PkgName, <<ImportSpecifierNode("ImportDefaultSpecifier", "", "csf"),
                                      NamedSpecifier("defineMeta", "defineMeta")>>),
     ImportDeclarationNode(PkgName, <<ImportSpecifierNode("ImportNamespaceSpecifier", "", "ns")>>),
     ImportDeclarationNode("svelte", <<ImportSpecifierNode("ImportNamespaceSpecifier", "", "$")>>),
     DefineMetaCall(<<PatternProperty("Story", "Story")>>, "defineMeta"),
     DefineMetaCall(<<PatternProperty("meta", "meta"), PatternProperty("Story", "S")>>, "dm"),
     DefineMetaCall(<<PatternProperty("meta", "meta")>>, "defineMeta"),
     ExportDefaultDeclarationNode(IdentifierNode("B_stories")),
     ExportDefaultDeclarationNode(FunctionDeclarationNode(StoriesName, <<>>)),
     FunctionDeclarationNode(StoriesName, <<>>),
     FunctionDeclarationNode(Str(<<"s","t","o","r","i","e","s">>),
                             <<DefineMetaCall(<<PatternProperty("Story", "Story")>>, "defineMeta")>>),
     BlockStatementNode(<<FunctionDeclarationNode(Str(<<"I","_","s","t","o","r","i","e","s">>), <<>>)>>)}

NodeEnvs == {"production", "development"}

InitCompiled ==
    /\ coInput \in [filename : Filenames, NODE_ENV : NodeEnvs]
    /\ coState = [defineMetaImport |-> Undefined, defineMetaVariableDeclaration |-> Undefined,
                  exportDefault |-> Undefined, storyIdentifier |-> Undefined,
                  storiesFunctionDeclaration |-> Undefined]
    /\ coDoc = <<>>
    /\ coPc = "walk"
    /\ coResult = Pending
    /\ IdIdle /\ WalkIdle /\ RawIdle /\ IxIdle /\ ObIdle

NextCompiled ==
    \/ \E node \in CompiledPool : AtImportDeclaration(node)
    \/ \E node \in CompiledPool : AtVariableDeclaration(node)
    \/ \E node \in CompiledPool : AtExportDefaultDeclaration(node)
    \/ \E node \in CompiledPool : AtFunctionDeclaration(node)
    \/ \E node \in CompiledPool : Descend(node)
    \/ ReturnCompiledASTNodes

SpecCompiled == InitCompiled /\ [][NextCompiled]_vars

(***************************************************************************)
(* C11                                                                     *)
(***************************************************************************)
CompiledFields ==
    <<"defineMetaImport", "defineMetaVariableDeclaration", "exportDefault",
      "storyIdentifier", "storiesFunctionDeclaration">>
CompleteBundle(result) ==
    /\ result.t = "bundle"
    /\ \A i \in DOMAIN CompiledFields : result.nodes[CompiledFields[i]].t = "node"
\* the first of the five fields that the walk has left unset
FirstUnset(i) ==
    /\ coState[CompiledFields[i]].t = "undefined"
    /\ \A j \in 1..(i - 1) : coState[CompiledFields[j]].t = "node"
CouldNotFindThrown ==
    /\ IsThrow(coResult)
    /\ \E i \in DOMAIN CompiledFields : coResult.msg = CouldNotFind[CompiledFields[i]]
    /\ coResult.filename = coInput.filename
\* the statement the walk is at imports the package with a default or
\* namespace specifier
ImportsDefaultOrNamespace(node) ==
    /\ node.type = "ImportDeclaration" /\ node.source = PkgName
    /\ \E i \in DOMAIN node.specifiers : node.specifiers[i].type # "ImportSpecifier"

\* C11 as claimed: extractCompiledASTNodes returns a bundle with all five
\* fields set or throws a 'could not find' error with the filename.
C11_BundleOrCouldNotFind ==
    coPc = "over" => (CompleteBundle(coResult) \/ CouldNotFindThrown)

\* C11 amended: extractCompiledASTNodes returns a bundle with all five fields
\* set, exactly when the walk has found all five; or it throws, with the
\* filename, the default/namespace import error at an import of the package
\* that has such a specifier, or else the 'could not find' error of the first
\* field the walk has not found.  No bundle has an unset field.
C11_BundleOrFatalError ==
    coPc = "over" =>
        /\ coResult.t \in {"bundle", "throw"}
        /\ coResult.t = "bundle" =>
               CompleteBundle(coResult) /\ coResult.nodes = coState
        /\ (\A i \in DOMAIN CompiledFields : coState[CompiledFields[i]].t = "node"
                /\ ~ImportsDefaultOrNamespace(coDoc[Len(coDoc)])) =>
               coResult.t = "bundle"
        /\ IsThrow(coResult) =>
               /\ coResult.filename = coInput.filename
               /\ \/ /\ coResult.msg = DefaultOrNamespaceImport
                     /\ ImportsDefaultOrNamespace(coDoc[Len(coDoc)])
                  \/ \E i \in DOMAIN CompiledFields :
                         coResult.msg = CouldNotFind[CompiledFields[i]] /\ FirstUnset(i)

\* a bundle has been returned for a program that renames both defineMeta and
\* Story
C11_Witness ==
    /\ coResult.t = "bundle"
    /\ coResult.nodes.defineMetaImport.node.local = "dm"
    /\ coResult.nodes.storyIdentifier.node.name = "S"
    /\ coResult.nodes.storiesFunctionDeclaration.node.id = StoriesName

(***************************************************************************)
(* parseForIndexer over documents whose module script imports defineMeta   *)
(* and destructures its result.  body holds the statements of the module   *)
(* script.  The walk is the one of SpecIndexer: Root visits the fragment   *)
(* only, so no visitor is handed a statement of body.                      *)
(***************************************************************************)
ModuleProgram(body) ==
    [t |-> "script", form |-> "defineMeta", title |-> Undefined, tags |-> Undefined,
     body |-> body]
ModulePrograms ==
    {ModuleProgram(<<ImportDeclarationNode(PkgName, specifiers),
                     DefineMetaCall(<<PatternProperty("Story", local)>>, "defineMeta")>>) :
         specifiers \in
             {<<NamedSpecifier("defineMeta", "defineMeta")>>,
              <<ImportSpecifierNode("ImportDefaultSpecifier", "", "csf"),
                NamedSpecifier("defineMeta", "defineMeta")>>,
              <<ImportSpecifierNode("ImportNamespaceSpecifier", "", "ns")>>},
         local \in {"Story", "S"}}
ModulePool ==
    {IndexStory(<<NameAttr(<<"A">>)>>),
     IndexNode("Component", "S", <<NameAttr(<<"B">>)>>, <<>>),
     IndexNode("Component", "S", <<Attr("exportName", Parts(<<TextPart(<<"E">>)>>))>>, <<>>),
     IndexStory(<<>>),
     IndexNode("Component", "Other", <<>>, <<>>),
     IndexNode("Text", "", <<>>, <<>>)}

InitIndexerModule ==
    /\ ixInput \in [filename : Filenames, legacyTemplate : BOOLEAN, module : ModulePrograms]
    /\ ixMeta = [title |-> Undefined, tags |-> Undefined]
    /\ ixStories = <<>>
    /\ foundMeta = FALSE
    /\ defineMetaIdentifier = "defineMeta"
    /\ componentStoryIdentifier = "Story"
    /\ componentMetaIdentifier = "Meta"
    /\ ixPc = "root"
    /\ ixDoc = <<>>
    /\ ixResult = Pending
    /\ IdIdle /\ WalkIdle /\ RawIdle /\ CoIdle /\ ObIdle

NextIndexerModule ==
    \/ VisitRoot
    \/ \E node \in ModulePool : IndexComponent(node)
    \/ \E node \in ModulePool : SkipNode(node)
    \/ ReturnResults

SpecIndexerModule == InitIndexerModule /\ [][NextIndexerModule]_vars

(***************************************************************************)
(* C12                                                                     *)
(***************************************************************************)
\* the module script imports the package with a default or namespace specifier
ModuleImportsDefaultOrNamespace ==
    \E i \in DOMAIN ixInput.module.body : ImportsDefaultOrNamespace(ixInput.module.body[i])

\* C12 as claimed, for parseForIndexer: a document whose module script imports
\* the package with a default or namespace specifier makes the walk throw an
\* error with the filename, and no result is returned.
C12_IndexerImportIsFatal ==
    (ixPc = "over" /\ ModuleImportsDefaultOrNamespace) =>
        /\ IsThrow(ixResult)
        /\ ixResult.filename = ixInput.filename

\* C12 for extractCompiledASTNodes: at an import of the package with a default
\* or namespace specifier the walk stops with the import error and the
\* filename, and no other import throws.
C12_CompiledImportIsFatal ==
    /\ (coDoc # <<>> /\ ImportsDefaultOrNamespace(coDoc[Len(coDoc)])) =>
           /\ coPc = "over"
           /\ coResult = CompiledError(DefaultOrNamespaceImport, coInput.filename)
    /\ (IsThrow(coResult) /\ coResult.msg = DefaultOrNamespaceImport) =>
           ImportsDefaultOrNamespace(coDoc[Len(coDoc)])

(***************************************************************************)
(* C14                                                                     *)
(***************************************************************************)
\* the local name that the module script binds Story to
StoryLocalName ==
    LET declaration == ixInput.module.body[2]
    IN declaration.properties[1].value.name

\* the entries of the components called name among the first n nodes of the
\* root fragment
RECURSIVE EntriesNamed(_, _)
EntriesNamed(n, name) ==
    IF n = 0 THEN <<>>
    ELSE IF ixDoc[n].type = "Component" /\ ixDoc[n].name = name
    THEN Append(EntriesNamed(n - 1, name), EntryOf(ixDoc[n]))
    ELSE EntriesNamed(n - 1, name)

\* C14 as claimed: when the module script binds Story under another local
\* name, the stories returned are the entries of the components with that
\* local name, and a component called Story gives none.
C14_AliasIsTracked ==
    (ixResult = Returned /\ StoryLocalName # "Story") =>
        ixStories = EntriesNamed(Len(ixDoc), StoryLocalName)

(***************************************************************************)
(* C16                                                                     *)
(***************************************************************************)
\* a <Meta> component among the nodes read gives attribute a as value
MetaGives(a, value) ==
    \E i \in DOMAIN ixDoc :
        /\ ixDoc[i].type = "Component" /\ ixDoc[i].name = "Meta"
        /\ Gives(ixDoc[i], a) /\ TextOf(ixDoc[i], a) = value

\* C16 as claimed: with the legacy flag and no meta object in the script, the
\* static title and tags of a <Meta> component are the meta.title and
\* meta.tags returned.
C16_LegacyMetaAttributes ==
    (ixResult = Returned /\ ixInput.legacyTemplate /\ ixInput.module.t = "undefined") =>
        /\ MetaGives("title", <<"T">>) => ixMeta.title = Str(<<"T">>)
        /\ MetaGives("tags", <<<<"m">>>>) => ixMeta.tags = [t |-> "array", a |-> <<<<"m">>>>]

(***************************************************************************)
(* C13                                                                     *)
(***************************************************************************)
\* the text of the body of a snippet block, without newlines, trimmed
BodyText(block) ==
    LET notNewline(c) == c # "\n"
    IN Trim(SelectSeq(Concat(block.body), notNewline))
\* the first snippet block of the root fragment with this name
SnippetCalled(name) ==
    LET blocks == rawCall.svelteASTNodes.snippetBlocks
    IN blocks[CHOOSE i \in DOMAIN blocks :
                  blocks[i].name = name /\ \A j \in 1..(i - 1) : blocks[j].name # name]
\* the marker has a children attribute that names a snippet block
ChildrenAttributeNamesSnippet ==
    /\ rawCall.component.attributes # <<>>
    /\ ~rawCall.component.attributes[1].value.bare
    /\ rawCall.component.attributes[1].value.parts[1].type = "ExpressionTag"
    /\ rawCall.component.attributes[1].value.parts[1].expr = "Identifier"
    /\ RawChildrenName \in RawSnippetNames
\* the setTemplate call names a snippet block
SetTemplateNamesSnippet ==
    /\ rawCall.svelteASTNodes.setTemplateCall.t = "call"
    /\ rawCall.svelteASTNodes.setTemplateCall.type = "Identifier"
    /\ rawCall.svelteASTNodes.setTemplateCall.name \in RawSnippetNames
\* the component identifier of the meta object, or !unspecified
SubjectName ==
    IF rawCall.svelteASTNodes.metaComponent.t = "property"
           /\ rawCall.svelteASTNodes.metaComponent.type = "Identifier"
    THEN rawCall.svelteASTNodes.metaComponent.name
    ELSE <<"!","u","n","s","p","e","c","i","f","i","e","d">>
InlineChildren ==
    {i \in DOMAIN rawCall.component.nodes :
         /\ rawCall.component.nodes[i].type = "SnippetBlock"
         /\ rawCall.component.nodes[i].name = "children"}
\* what the claim says the call returns
ClaimedRawSource ==
    LET nodes == rawCall.component.nodes
    IN IF nodes = <<>>
       THEN IF ChildrenAttributeNamesSnippet THEN BodyText(SnippetCalled(RawChildrenName))
            ELSE IF SetTemplateNamesSnippet
            THEN BodyText(SnippetCalled(rawCall.svelteASTNodes.setTemplateCall.name))
            ELSE <<"<">> \o SubjectName \o <<" ","{",".",".",".","a","r","g","s","}"," ","/",">">>
       ELSE IF InlineChildren # {}
       THEN BodyText(nodes[CHOOSE i \in InlineChildren : \A j \in InlineChildren : i <= j])
       ELSE LET notNewline(c) == c # "\n"
            IN Trim(SelectSeq(Concat([i \in DOMAIN nodes |-> nodes[i].text]), notNewline))

\* C13 as claimed: getStoryChildrenRawSource returns the snippet named by the
\* children attribute, else the snippet named by setTemplate, else the
\* placeholder, for a self-closing marker; the inline children snippet, else
\* the text of the child nodes without newlines and trimmed, for a marker
\* with child nodes.
C13_FixedOrder ==
    rawRet # Pending => rawRet = Str(ClaimedRawSource)

\* what does hold: a call that returns a string returns the claimed one, and
\* a call throws instead only for a snippet with an empty body, a children
\* attribute that is no identifier, a setTemplate argument that is no
\* identifier, or a component of the meta object that is no identifier
C13_OrderWhenReturned ==
    rawRet # Pending =>
        /\ rawRet.t \in {"string", "throw"}
        /\ rawRet.t = "string" => rawRet.s = ClaimedRawSource

(***************************************************************************)
(* C15                                                                     *)
(***************************************************************************)
\* the stories functions of a statement, in both shapes: a function
\* declaration that the walk reaches, and the function declared by the
\* default export
RECURSIVE StoriesFunctionsIn(_)
StoriesFunctionsIn(node) ==
    IF node.type = "FunctionDeclaration"
    THEN IF isStoriesComponentFn(node) THEN {node} ELSE {}
    ELSE IF node.type = "ExportDefaultDeclaration"
    THEN IF node.declaration.type = "FunctionDeclaration" /\ isStoriesComponentFn(node.declaration)
         THEN {node.declaration} ELSE {}
    ELSE IF node.type = "BlockStatement"
    THEN UNION {StoriesFunctionsIn(node.body[i]) : i \in DOMAIN node.body}
    ELSE {}
StoriesFunctionsRead == UNION {StoriesFunctionsIn(coDoc[i]) : i \in DOMAIN coDoc}

\* C15 as claimed: whatever NODE_ENV is, a program that declares a stories
\* function, alone or in its default export, has it located, and the located
\* function is one the program declares.
C15_LocatedInEveryMode ==
    /\ StoriesFunctionsRead # {} =>
           /\ coState.storiesFunctionDeclaration.t = "node"
           /\ coState.storiesFunctionDeclaration.node \in StoriesFunctionsRead
    /\ StoriesFunctionsRead = {} => coState.storiesFunctionDeclaration.t = "undefined"

\* the same with NODE_ENV = 'production' only
C15_LocatedInProduction ==
    coInput.NODE_ENV = "production" => C15_LocatedInEveryMode

(***************************************************************************)
(* The ObjectExpression visitor of parseForIndexer, from the call          *)
(* visit(arguments_[0], state) of the VariableDeclaration visitor on the   *)
(* meta object literal.  Root does not hand the module script to the walk  *)
(* (VisitRoot), so this call is the visitor taken on its own.  visit runs  *)
(* the universal visitor, whose next(state) calls the visitor of the       *)
(* node's type.  obStack holds one loop index per call of the visitor that *)
(* has not returned.  The Property visitor is called by no visitor.        *)
(***************************************************************************)
ObjectProperty(type, keyType, name) == [type |-> type, keyType |-> keyType, name |-> name]
ObjectExpressionNode(properties) == [type |-> "ObjectExpression", properties |-> properties]
PropertyKinds ==
    {ObjectProperty("Property", "Identifier", "title"),
     ObjectProperty("Property", "Literal", "tags"),
     ObjectProperty("SpreadElement", "", "")}
RECURSIVE PropertyLists(_)
PropertyLists(n) ==
    IF n = 0 THEN {<<>>}
    ELSE LET shorter == PropertyLists(n - 1)
         IN shorter \cup {Append(l, p) : l \in shorter, p \in PropertyKinds}
MetaObjects == {ObjectExpressionNode(l) : l \in PropertyLists(MaxProperties)}

RangeError == Throw("RangeError: Maximum call stack size exceeded")

\* if (property.type === 'Property' && property.key.type === 'Identifier')
visitsProperty(property) == property.type = "Property" /\ property.keyType = "Identifier"

InitMetaObject ==
    /\ obNode \in MetaObjects
    /\ obStack = <<>>
    /\ obResult = Pending
    /\ IdIdle /\ WalkIdle /\ RawIdle /\ IxIdle /\ CoIdle

\* visit(arguments_[0], state): _ and then ObjectExpression(node, context)
VisitObjectExpression ==
    /\ obStack = <<>> /\ obResult = Pending
    /\ obStack' = <<1>>
    /\ UNCHANGED <<obNode, obResult>>
    /\ UNCHANGED <<idVars, walkVars, rawVars, ixVars, coVars>>

\* the loop passes a property that is spread or has no identifier as key
LoopSkip ==
    /\ obStack # <<>>
    /\ LET i == obStack[Len(obStack)]
       IN /\ i <= Len(obNode.properties)
          /\ ~visitsProperty(obNode.properties[i])
          /\ obStack' = [obStack EXCEPT ![Len(obStack)] = i + 1]
    /\ UNCHANGED <<obNode, obResult>>
    /\ UNCHANGED <<idVars, walkVars, rawVars, ixVars, coVars>>

\* visit(node, state) with node the object literal itself: the visitor is
\* called again on the node it is handling, until the call stack is full
LoopVisit ==
    /\ obStack # <<>>
    /\ LET i == obStack[Len(obStack)]
       IN /\ i <= Len(obNode.properties)
          /\ visitsProperty(obNode.properties[i])
    /\ IF Len(obStack) < MaxCallStack
       THEN obStack' = Append(obStack, 1) /\ UNCHANGED obResult
       ELSE obStack' = <<>> /\ obResult' = RangeError
    /\ UNCHANGED obNode
    /\ UNCHANGED <<idVars, walkVars, rawVars, ixVars, coVars>>

\* the loop is over and the visitor returns, to the loop of its caller or
\* to the VariableDeclaration visitor
ReturnFromObjectExpression ==
    /\ obStack # <<>>
    /\ obStack[Len(obStack)] > Len(obNode.properties)
    /\ IF Len(obStack) = 1
       THEN obStack' = <<>> /\ obResult' = Returned
       ELSE /\ obStack' = [SubSeq(obStack, 1, Len(obStack) - 1)
                              EXCEPT ![Len(obStack) - 1] = @ + 1]
            /\ UNCHANGED obResult
    /\ UNCHANGED obNode
    /\ UNCHANGED <<idVars, walkVars, rawVars, ixVars, coVars>>

NextMetaObject ==
    \/ VisitObjectExpression
    \/ LoopSkip
    \/ LoopVisit
    \/ ReturnFromObjectExpression

SpecMetaObject == InitMetaObject /\ [][NextMetaObject]_vars

=============================================================================
